---- MODULE Spec2Model ----
(***************************************************************************)
(* FetchDepthLayer (fetch_depth_layer/src/depth_layer.cpp): the camera-info *)
(* callback that stores the intrinsics K_ and the depth-image callback that *)
(* turns one depth frame into clearing and marking observations.            *)
(*                                                                          *)
(* Number representation.  Lengths are integers in centimetres (the code's  *)
(* floats are metres), plane normals are integers in hundredths, so every   *)
(* product and comparison of the code is exact integer arithmetic here.     *)
(* Floating-point rounding is not modelled.  NaN is a distinguished value   *)
(* that the model never feeds to arithmetic.                                *)
(***************************************************************************)
EXTENDS Integers, Sequences, FiniteSets, TLC

VARIABLES
    cfg,                 \* the parameters read by onInitialize
    K_,                  \* stored intrinsics (cv::Mat K_), Empty until set
    accepted,            \* history: intrinsics of the last update that passed the binning test
    mutex_K_,            \* owner of boost::mutex mutex_K_
    normals_estimator_,  \* cached cv::RgbdNormals: Empty or the K it was built with
    pcInfo,              \* camera-info subscriber thread
    infoMsg,             \* the CameraInfo message of the last/pending callback
    pc,                  \* position of the depth-image callback
    msg,                 \* the Image message being processed
    points3d,            \* cv::Mat points3d (row-major, index i*Cols+j)
    normalsK,            \* intrinsics the normals of this frame were computed with
    plane_coefficients,  \* candidates returned by the plane estimator
    ground_plane,        \* cv::Vec4f ground_plane
    clearing_points,     \* clearing_points.points
    marking_points,      \* marking_points.points
    oob_reads,           \* neighbour indices read outside the grid in this frame
    buffered,            \* bufferCloud calls of this frame, per channel
    published,           \* publish calls of this frame, per channel
    outcome              \* how the current frame ended ("running" until then)

vars == << cfg, K_, accepted, mutex_K_, normals_estimator_, pcInfo, infoMsg, pc, msg,
           points3d, normalsK, plane_coefficients, ground_plane,
           clearing_points, marking_points, oob_reads, buffered, published,
           outcome >>

(***************************************************************************)
(* Bounds of the model.                                                    *)
(***************************************************************************)
Rows == 3
Cols == 3
MaxDefects == 2
MaxCandidates == 2

(***************************************************************************)
(* Values.                                                                 *)
(***************************************************************************)
\* Fixed-point representation of the float 1.0: one metre is One length
\* units, a unit normal component is One.
One == 100
\* A float that is not a number (isnan).
NaN == -1000000
\* cv::Mat::empty(), cv::Ptr::empty(), no message.
Empty == << >>

Abs(x) == IF x < 0 THEN -x ELSE x

NPix == Rows * Cols
Pixels == 0 .. (NPix - 1)

ZeroPoint == << 0, 0, 0 >>
NaNPoint == << NaN, NaN, NaN >>
NoPoints == [k \in Pixels |-> ZeroPoint]

\* cv::Vec4f's default constructor sets every element to 0.
DefaultVec4f == << 0, 0, 0, 0 >>

(***************************************************************************)
(* onInitialize: the parameters.                                           *)
(***************************************************************************)
\* observations_separation_threshold, default 0.06
DefaultObservationsThreshold == (6 * One) \div 100
\* ground_orientation_threshold, default 0.9
DefaultGroundThreshold == (9 * One) \div 10

Params(skips, flags) ==
    [ publish_observations_    |-> flags[1],
      find_ground_plane_       |-> flags[2],
      clear_nans_              |-> flags[3],
      clear_with_skipped_rays_ |-> flags[4],
      observations_threshold_  |-> DefaultObservationsThreshold,
      ground_threshold_        |-> DefaultGroundThreshold,
      skip_rays_bottom_        |-> skips[1],
      skip_rays_top_           |-> skips[2],
      skip_rays_left_          |-> skips[3],
      skip_rays_right_         |-> skips[4] ]

Flags == BOOLEAN \X BOOLEAN \X BOOLEAN \X BOOLEAN

(***************************************************************************)
(* cameraInfoCallback: the intrinsics computed from a CameraInfo message.  *)
(* K is << focal, center_x, center_y >> of the 3x3 matrix.  The inputs are *)
(* multiples of the binning, so the float divisions are exact.             *)
(***************************************************************************)
BinnedIntrinsics(m) ==
    IF m.binning_x > 0
    THEN << m.P0 \div m.binning_x, m.P2 \div m.binning_x, m.P6 \div m.binning_x >>
    ELSE << m.P0, m.P2, m.P6 >>

\* Variant: the binning test is missing.
UpdatedKAlways(m, old) == BinnedIntrinsics(m)

UpdatedK(m, old) ==
    IF m.binning_x = m.binning_y
    THEN BinnedIntrinsics(m)
    ELSE old

InfoMsgs ==
    [ P0 : {One}, P2 : {-4}, P6 : {-4}, binning_x : 0 .. 2, binning_y : 0 .. 2 ]

(***************************************************************************)
(* depthImageCallback, lines 181-193: NaN replacement and back-projection. *)
(***************************************************************************)
\* 25.0
FarRange == 25 * One

ClearNans(image) ==
    [k \in Pixels |-> IF image[k] = NaN THEN FarRange ELSE image[k]]

\* cv::depthTo3d on a 32-bit float image: x = (u - cx) * z / fx,
\* y = (v - cy) * z / fy, z = depth; a NaN depth gives a NaN point and a
\* zero depth the point (0,0,0).
BackProject(i, j, d, K) ==
    IF d = NaN THEN NaNPoint
    ELSE << ((j - K[2]) * d) \div K[1], ((i - K[3]) * d) \div K[1], d >>

DepthTo3d(image, K) ==
    [k \in Pixels |-> BackProject(k \div Cols, k % Cols, image[k], K)]

(***************************************************************************)
(* depthImageCallback, lines 229-263: choice of the ground plane.          *)
(***************************************************************************)
PassesOrientation(pl, c) ==
    /\ Abs(0 - pl[1]) <= c.ground_threshold_
    /\ Abs(One + pl[2]) <= c.ground_threshold_
    /\ Abs(0 - pl[3]) <= c.ground_threshold_

RECURSIVE FirstGround(_, _, _)
FirstGround(coeffs, n, c) ==
    IF n > Len(coeffs) THEN DefaultVec4f
    ELSE IF PassesOrientation(coeffs[n], c) THEN coeffs[n]
    ELSE FirstGround(coeffs, n + 1, c)

SelectGroundPlane(coeffs, c) == FirstGround(coeffs, 1, c)

\* Variant: the offset is tested for being non-zero.
IsSentinelNormalOnly(pl) ==
    pl[1] = 0 /\ pl[2] = 0 /\ pl[3] = 0 /\ pl[4] # 0

IsSentinel(pl) ==
    pl[1] = 0 /\ pl[2] = 0 /\ pl[3] = 0 /\ pl[4] = 0

(***************************************************************************)
(* depthImageCallback, lines 277-356: the classification loop.             *)
(***************************************************************************)
\* The loop indices i, j are size_t, the margins and points3d.rows/cols are
\* int: each comparison converts its int operand to size_t, so a negative
\* value wraps to a value above every index.  The wrap is modulo 2^64 in
\* the build; the model wraps modulo 2^30, which lies above every index and
\* margin as well.
SizeModulus == 2 ^ 30

SizeT(n) == n % SizeModulus

IsValidPoint(p) ==
    /\ p[1] # 0 /\ p[2] # 0 /\ p[3] # 0
    /\ p[1] # NaN /\ p[2] # NaN /\ p[3] # NaN

IsEdgeRay(i, j, c) ==
    \/ i < SizeT(c.skip_rays_top_)
    \/ i >= SizeT(Rows - c.skip_rays_bottom_)
    \/ j < SizeT(c.skip_rays_left_)
    \/ j >= SizeT(Cols - c.skip_rays_right_)

\* fabs(a*x + b*y + c*z + d) <= observations_threshold_, scaled by One.
IsGround(p, pl, c) ==
    Abs(pl[1] * p[1] + pl[2] * p[2] + pl[3] * p[3] + One * pl[4])
        <= One * c.observations_threshold_

InGrid(r, c) == r >= 0 /\ r < Rows /\ c >= 0 /\ c < Cols

\* channels[k].at<float>(r, c) without bounds check.  Each channel is a
\* continuous Rows x Cols matrix, so the element read is the one at linear
\* index r*Cols + c when that lies in the allocation (a column overflow
\* lands in the adjacent row); outside the allocation the read is undefined
\* and yields whatever the memory holds: g says whether that garbage looks
\* like a point close to cur or like an invalid point.
At(pts, r, c, cur, g) ==
    LET idx == r * Cols + c
    IN  IF idx \in Pixels THEN pts[idx]
        ELSE IF g = "close" THEN cur ELSE NaNPoint

\* 0.1
NeighbourTol == One \div 10

Supports(q, p) ==
    /\ IsValidPoint(q)
    /\ Abs(q[1] - p[1]) < NeighbourTol
    /\ Abs(q[2] - p[2]) < NeighbourTol
    /\ Abs(q[3] - p[3]) < NeighbourTol

Offsets == ((-1 .. 1) \X (-1 .. 1)) \ { << 0, 0 >> }

NumValid(pts, i, j, g) ==
    Cardinality({ o \in Offsets :
        Supports(At(pts, i + o[1], j + o[2], pts[i * Cols + j], g),
                 pts[i * Cols + j]) })

OutOfGrid(i, j) ==
    { << i + o[1], j + o[2] >> : o \in { q \in Offsets : ~InGrid(i + q[1], j + q[2]) } }

\* num_valid >= 7
MinSupport == 7

\* Variant: one supporting neighbour fewer suffices.
IsObstacleLow(pts, i, j, g) == NumValid(pts, i, j, g) >= MinSupport - 1

IsObstacle(pts, i, j, g) == NumValid(pts, i, j, g) >= MinSupport

\* One iteration of the loop body for pixel (i, j); acc holds the two
\* clouds and the out-of-grid neighbour indices read so far.
ClassifyPixel(pts, pl, c, g, i, j, acc) ==
    LET p  == pts[i * Cols + j]
        a1 == IF c.clear_with_skipped_rays_
              THEN [acc EXCEPT !.clearing = Append(@, p)] ELSE acc
        a2 == IF ~c.clear_with_skipped_rays_
              THEN [a1 EXCEPT !.clearing = Append(@, p)] ELSE a1
        a3 == [a2 EXCEPT !.oob = @ \cup OutOfGrid(i, j)]
    IN  IF ~IsValidPoint(p) THEN acc
        ELSE IF IsEdgeRay(i, j, c) THEN a1
        ELSE IF IsGround(p, pl, c) THEN a2
        ELSE IF IsObstacle(pts, i, j, g)
             THEN [a3 EXCEPT !.marking = Append(@, p)]
             ELSE a3

RECURSIVE ClassifyFrom(_, _, _, _, _, _)
ClassifyFrom(k, pts, pl, c, g, acc) ==
    IF k >= NPix THEN acc
    ELSE ClassifyFrom(k + 1, pts, pl, c, g,
                      ClassifyPixel(pts, pl, c, g, k \div Cols, k % Cols, acc))

Classify(pts, pl, c, g) ==
    ClassifyFrom(0, pts, pl, c, g,
                 [clearing |-> << >>, marking |-> << >>, oob |-> {}])

(***************************************************************************)
(* Inputs.                                                                 *)
(***************************************************************************)
Near == One
Far == 2 * One

\* A flat scene at depth Near in which at most MaxDefects pixels hold
\* another sample: no return (0), NaN, or a return from depth Far.
DefectSets == { D \in SUBSET Pixels : Cardinality(D) <= MaxDefects }
DefectImages ==
    { [k \in Pixels |-> IF k \in D THEN v ELSE Near] :
        D \in DefectSets, v \in { 0, NaN, Far } }
UniformImages == { [k \in Pixels |-> v] : v \in { 0, NaN, Near, Far } }

\* An Image message: the depth samples, whether cv_bridge can convert its
\* encoding to 32FC1, and whether tf has data for header.frame_id.
ImageMsgs ==
    [ image : UniformImages, encoding_ok : { TRUE }, frame_known : BOOLEAN ]
        \cup { [ image |-> [k \in Pixels |-> 0], encoding_ok |-> FALSE,
                 frame_known |-> TRUE ] }

\* Candidate planes (a, b, c in hundredths, d in length units).
FloorPlane == << 0, -One, 0, 20 >>
WallPlane == << 0, 0, One, -One >>
TiltedPlane == << 0, -((6 * One) \div 10), (8 * One) \div 10, -77 >>

CandidatePlanes == { FloorPlane, WallPlane }
CandidateLists ==
    UNION { [1 .. n -> CandidatePlanes] : n \in 0 .. MaxCandidates }

\* What tf answers for a known frame: the plane built from the rotated
\* axis (transformVector) and the origin height (lookupTransform).
TfPlanes == { FloorPlane, WallPlane }

NoCalls == [ clearing |-> 0, marking |-> 0 ]

(***************************************************************************)
(* The camera-info thread.                                                 *)
(***************************************************************************)
Alive == pc # "crashed"

depthVars == << pc, msg, points3d, normalsK, plane_coefficients, ground_plane,
                clearing_points, marking_points, oob_reads, buffered,
                published, outcome >>

\* A CameraInfo message is delivered; the callback blocks on mutex_K_.
InfoArrive ==
    /\ Alive
    /\ pcInfo = "idle"
    /\ \E m \in InfoMsgs : infoMsg' = << m >>
    /\ pcInfo' = "waiting"
    /\ UNCHANGED << cfg, K_, accepted, mutex_K_, normals_estimator_ >>
    /\ UNCHANGED depthVars

\* cameraInfoCallback: the whole body runs under the scoped lock.
CameraInfoCallback ==
    /\ Alive
    /\ pcInfo = "waiting"
    /\ mutex_K_ = "free"
    /\ K_' = UpdatedK(infoMsg[1], K_)
    /\ accepted' = IF infoMsg[1].binning_x = infoMsg[1].binning_y
                   THEN BinnedIntrinsics(infoMsg[1]) ELSE accepted
    /\ pcInfo' = "idle"
    /\ UNCHANGED << cfg, mutex_K_, normals_estimator_, infoMsg >>
    /\ UNCHANGED depthVars

(***************************************************************************)
(* The depth-image thread: depthImageCallback in its stages.               *)
(***************************************************************************)
frameLocals == << points3d, normalsK, plane_coefficients, ground_plane,
                  clearing_points, marking_points, oob_reads, buffered,
                  published >>

shared == << cfg, K_, accepted, normals_estimator_, pcInfo, infoMsg >>

\* Line 162: an Image message is delivered and the callback takes mutex_K_.
DepthBegin ==
    /\ pc = "idle"
    /\ mutex_K_ = "free"
    /\ mutex_K_' = "depth"
    /\ \E m \in ImageMsgs : msg' = << m >>
    /\ pc' = "start"
    /\ outcome' = "running"
    /\ UNCHANGED shared
    /\ UNCHANGED frameLocals

\* The mutex owner while the callback runs past line 168: the unique_lock
\* is a local of the whole function body.
\* Variant: the lock is released once K_ has been used for back-projection.
LockReleasedAfterRead == "free"

LockAfterRead == "depth"

\* Lines 164-193.
DepthConvert ==
    /\ pc = "start"
    /\ IF K_ = Empty
       THEN /\ pc' = "done"
            /\ outcome' = "not_ready"
            /\ UNCHANGED << points3d, mutex_K_ >>
       ELSE IF ~msg[1].encoding_ok
       THEN /\ pc' = "done"
            /\ outcome' = "decode_failure"
            /\ UNCHANGED << points3d, mutex_K_ >>
       ELSE /\ points3d' = DepthTo3d(IF cfg.clear_nans_
                                     THEN ClearNans(msg[1].image)
                                     ELSE msg[1].image, K_)
            /\ mutex_K_' = LockAfterRead
            /\ pc' = "plane"
            /\ UNCHANGED outcome
    /\ UNCHANGED shared
    /\ UNCHANGED << msg, normalsK, plane_coefficients, ground_plane,
                    clearing_points, marking_points, oob_reads, buffered,
                    published >>

\* Lines 200-206: the normals estimator is built on first use only.
EstimatorFor(est, K) == IF est = Empty THEN K ELSE est

\* Lines 196-263.
DepthGroundPlane ==
    /\ pc = "plane"
    /\ IF cfg.find_ground_plane_
       THEN /\ normals_estimator_' = EstimatorFor(normals_estimator_, K_)
            /\ normalsK' = normals_estimator_'
            /\ \E coeffs \in CandidateLists :
                 /\ plane_coefficients' = coeffs
                 /\ ground_plane' = SelectGroundPlane(coeffs, cfg)
            /\ IF IsSentinel(ground_plane')
               THEN pc' = "done" /\ outcome' = "no_ground_plane"
               ELSE pc' = "classify" /\ UNCHANGED outcome
       ELSE /\ UNCHANGED << normals_estimator_, normalsK, plane_coefficients >>
            /\ IF ~msg[1].frame_known
               THEN \* transformVector throws tf::TransformException and
                    \* nothing in the callback or in the callback queue
                    \* catches it: the process terminates.
                    /\ pc' = "crashed"
                    /\ outcome' = "exception"
                    /\ UNCHANGED ground_plane
               ELSE /\ \E t \in TfPlanes : ground_plane' = t
                    /\ IF IsSentinel(ground_plane')
                       THEN pc' = "done" /\ outcome' = "no_ground_plane"
                       ELSE pc' = "classify" /\ UNCHANGED outcome
    /\ UNCHANGED << cfg, K_, accepted, pcInfo, infoMsg, mutex_K_, msg, points3d,
                    clearing_points, marking_points, oob_reads, buffered,
                    published >>

\* Lines 265-356.
DepthClassify ==
    /\ pc = "classify"
    /\ \E g \in { "invalid", "close" } :
         \E res \in { Classify(points3d, ground_plane, cfg, g) } :
             /\ clearing_points' = res.clearing
             /\ marking_points' = res.marking
             /\ oob_reads' = res.oob
    /\ pc' = "clearing"
    /\ UNCHANGED shared
    /\ UNCHANGED << mutex_K_, msg, points3d, normalsK, plane_coefficients,
                    ground_plane, buffered, published, outcome >>

\* Variant: the size test is missing.
ShouldBufferAlways(points) == TRUE

\* points.size() > 0
ShouldBuffer(points) == Len(points) > 0

\* Lines 358-376.  convertPointCloudToPointCloud2 fails only when a channel
\* has another size than the points; these clouds have no channels.
DepthBufferClearing ==
    /\ pc = "clearing"
    /\ IF ShouldBuffer(clearing_points)
       THEN /\ published' = IF cfg.publish_observations_
                            THEN [published EXCEPT !.clearing = @ + 1]
                            ELSE published
            /\ buffered' = [buffered EXCEPT !.clearing = @ + 1]
       ELSE UNCHANGED << published, buffered >>
    /\ pc' = "marking"
    /\ UNCHANGED shared
    /\ UNCHANGED << mutex_K_, msg, points3d, normalsK, plane_coefficients,
                    ground_plane, clearing_points, marking_points, oob_reads,
                    outcome >>

\* Lines 378-395.
DepthBufferMarking ==
    /\ pc = "marking"
    /\ IF ShouldBuffer(marking_points)
       THEN /\ published' = IF cfg.publish_observations_
                            THEN [published EXCEPT !.marking = @ + 1]
                            ELSE published
            /\ buffered' = [buffered EXCEPT !.marking = @ + 1]
       ELSE UNCHANGED << published, buffered >>
    /\ pc' = "done"
    /\ outcome' = "processed"
    /\ UNCHANGED shared
    /\ UNCHANGED << mutex_K_, msg, points3d, normalsK, plane_coefficients,
                    ground_plane, clearing_points, marking_points, oob_reads >>

\* The callback returns: its locals are destroyed, the unique_lock's
\* destructor releases mutex_K_.
DepthReturn ==
    /\ pc = "done"
    /\ pc' = "idle"
    /\ mutex_K_' = "free"
    /\ msg' = Empty
    /\ points3d' = NoPoints
    /\ normalsK' = Empty
    /\ plane_coefficients' = << >>
    /\ ground_plane' = DefaultVec4f
    /\ clearing_points' = << >>
    /\ marking_points' = << >>
    /\ oob_reads' = {}
    /\ buffered' = NoCalls
    /\ published' = NoCalls
    /\ outcome' = "none"
    /\ UNCHANGED shared

(***************************************************************************)
(* The node: both subscribers running.                                     *)
(***************************************************************************)
SpecSkips == { << 1, 1, 1, 1 >> }

Init ==
    /\ cfg \in { Params(s, f) : s \in SpecSkips, f \in Flags }
    /\ K_ = Empty
    /\ accepted = Empty
    /\ mutex_K_ = "free"
    /\ normals_estimator_ = Empty
    /\ pcInfo = "idle"
    /\ infoMsg = Empty
    /\ pc = "idle"
    /\ msg = Empty
    /\ points3d = NoPoints
    /\ normalsK = Empty
    /\ plane_coefficients = << >>
    /\ ground_plane = DefaultVec4f
    /\ clearing_points = << >>
    /\ marking_points = << >>
    /\ oob_reads = {}
    /\ buffered = NoCalls
    /\ published = NoCalls
    /\ outcome = "none"

Next ==
    \/ InfoArrive
    \/ CameraInfoCallback
    \/ DepthBegin
    \/ DepthConvert
    \/ DepthGroundPlane
    \/ DepthClassify
    \/ DepthBufferClearing
    \/ DepthBufferMarking
    \/ DepthReturn

Spec == Init /\ [][Next]_vars

(***************************************************************************)
(* The classification loop on its own: a frame that has passed the         *)
(* sentinel check, for every margin configuration and every frame of the   *)
(* input family.                                                           *)
(***************************************************************************)
AllSkips ==
    (0 .. Rows + 1) \X (0 .. Rows + 1) \X (0 .. Cols + 1) \X (0 .. Cols + 1)
\* Margins of at least one ray on every side that leave a pixel inside.
InnerSkips ==
    { s \in (1 .. Rows) \X (1 .. Rows) \X (1 .. Cols) \X (1 .. Cols) :
        s[1] + s[2] < Rows /\ s[3] + s[4] < Cols }

ClassifyFlags == { << FALSE, TRUE, FALSE, b >> : b \in BOOLEAN }

FullResolution ==
    [ P0 |-> One, P2 |-> -4, P6 |-> -4, binning_x |-> 1, binning_y |-> 1 ]

InitAtClassify(skips) ==
    /\ cfg \in { Params(s, f) : s \in skips, f \in ClassifyFlags }
    /\ K_ = UpdatedK(FullResolution, Empty)
    /\ accepted = K_
    /\ mutex_K_ = "depth"
    /\ normals_estimator_ = K_
    /\ pcInfo = "idle"
    /\ infoMsg = << FullResolution >>
    /\ pc = "classify"
    /\ msg \in { << [ image |-> im, encoding_ok |-> TRUE, frame_known |-> TRUE ] >> :
                    im \in DefectImages }
    /\ points3d = DepthTo3d(msg[1].image, K_)
    /\ normalsK = K_
    /\ ground_plane \in { FloorPlane, TiltedPlane }
    /\ plane_coefficients = << ground_plane >>
    /\ clearing_points = << >>
    /\ marking_points = << >>
    /\ oob_reads = {}
    /\ buffered = NoCalls
    /\ published = NoCalls
    /\ outcome = "running"

InitClassify == InitAtClassify(AllSkips)

InitMarking == InitAtClassify(InnerSkips)

NextClassify == DepthClassify

SpecClassify == InitClassify /\ [][NextClassify]_vars

SpecMarking == InitMarking /\ [][NextClassify]_vars

(***************************************************************************)
(* Properties.                                                             *)
(***************************************************************************)
Processing == { "plane", "classify", "clearing", "marking" }
AfterPlane == { "classify", "clearing", "marking", "done" }
PlaneObtained ==
    pc \in AfterPlane /\ outcome \notin { "not_ready", "decode_failure" }

\* A candidate qualifies as ground when its normal is within the
\* orientation threshold of (0, -1, 0).
QualifiesAsGround(pl) ==
    /\ Abs(pl[1]) <= cfg.ground_threshold_
    /\ Abs(pl[2] + One) <= cfg.ground_threshold_
    /\ Abs(pl[3]) <= cfg.ground_threshold_

NothingEmitted ==
    /\ clearing_points = << >>
    /\ marking_points = << >>
    /\ buffered = NoCalls
    /\ published = NoCalls

\* C1: whenever the ground plane obtained for a frame is (0,0,0,0), the
\* frame is dropped before classification: the callback is at its return
\* with outcome no_ground_plane, no point is in marking or clearing and
\* bufferCloud was called for neither channel.  In geometric mode a frame
\* none of whose candidate planes passes the orientation test gets the
\* plane (0,0,0,0), and no frame is classified against that plane.
C1_SentinelShortCircuit ==
    /\ (PlaneObtained /\ ground_plane = << 0, 0, 0, 0 >>)
          => (pc = "done" /\ outcome = "no_ground_plane" /\ NothingEmitted)
    /\ (PlaneObtained /\ cfg.find_ground_plane_
          /\ \A n \in 1 .. Len(plane_coefficients) :
                ~QualifiesAsGround(plane_coefficients[n]))
          => (ground_plane = << 0, 0, 0, 0 >> /\ outcome = "no_ground_plane")
    /\ outcome = "no_ground_plane" => NothingEmitted

\* A frame with valid points whose candidates all fail the orientation
\* test has been dropped.
C1_Witness ==
    /\ pc = "done"
    /\ outcome = "no_ground_plane"
    /\ cfg.find_ground_plane_
    /\ Len(plane_coefficients) > 0
    /\ \E k \in Pixels : IsValidPoint(points3d[k])

\* The intrinsics an accepted message stands for: focal length and
\* principal point divided by the binning when it is positive.
ExpectedK(m) ==
    IF m.binning_x > 0
    THEN << m.P0 \div m.binning_x, m.P2 \div m.binning_x, m.P6 \div m.binning_x >>
    ELSE << m.P0, m.P2, m.P6 >>

InfoStep == pcInfo = "waiting" /\ pcInfo' = "idle"

\* C2: a camera-info update with binning_x # binning_y leaves K_ exactly
\* as it was (the previous accepted intrinsics, or still empty); K_ changes
\* only in an update with binning_x = binning_y, which replaces it by the
\* intrinsics of that message.
C2_MalformedIntrinsicsRejected ==
    [][ /\ (InfoStep /\ infoMsg[1].binning_x # infoMsg[1].binning_y)
              => K_' = K_
        /\ (InfoStep /\ infoMsg[1].binning_x = infoMsg[1].binning_y)
              => K_' = ExpectedK(infoMsg[1])
        /\ K_' # K_
              => (InfoStep /\ infoMsg[1].binning_x = infoMsg[1].binning_y)
      ]_vars

\* A mismatched update has been processed after intrinsics were accepted,
\* and the stored intrinsics are still there.
C2_Witness ==
    /\ pcInfo = "idle"
    /\ infoMsg # Empty
    /\ infoMsg[1].binning_x # infoMsg[1].binning_y
    /\ K_ # Empty
    /\ K_ = accepted

C4_TransformFailureDropsFrame ==
    (/\ ~cfg.find_ground_plane_
     /\ msg # Empty
     /\ ~msg[1].frame_known
     /\ pc \notin { "idle", "start", "plane" }
     /\ outcome \notin { "not_ready", "decode_failure" })
        => (pc = "done" /\ outcome = "no_ground_plane" /\ NothingEmitted)

\* C5: every intrinsics-dependent step of a frame uses the intrinsics of
\* the most recently accepted update: the back-projection, and in
\* geometric mode the normals estimation.
C5_LatestIntrinsicsWin ==
    PlaneObtained
        => /\ points3d = DepthTo3d(IF cfg.clear_nans_ THEN ClearNans(msg[1].image)
                                   ELSE msg[1].image, accepted)
           /\ cfg.find_ground_plane_ => normalsK = accepted

\* C9: in every frame bufferCloud is called at most once per channel and
\* only for a non-empty point set; an empty set causes neither a hand-off
\* nor a publication, and a frame that ran to the end handed off every
\* non-empty set.
C9_EmptySetSuppression ==
    /\ buffered.clearing <= 1 /\ buffered.marking <= 1
    /\ published.clearing <= 1 /\ published.marking <= 1
    /\ clearing_points = << >> => (buffered.clearing = 0 /\ published.clearing = 0)
    /\ marking_points = << >> => (buffered.marking = 0 /\ published.marking = 0)
    /\ (outcome = "processed" /\ clearing_points # << >>) => buffered.clearing = 1
    /\ (outcome = "processed" /\ marking_points # << >>) => buffered.marking = 1

\* A frame ran to the end with clearing points and no marking point: one
\* hand-off for clearing, none for marking.
C9_Witness ==
    /\ outcome = "processed"
    /\ clearing_points # << >>
    /\ marking_points = << >>
    /\ buffered = [ clearing |-> 1, marking |-> 0 ]

(***************************************************************************)
(* Properties of the classification.                                       *)
(***************************************************************************)
Classified == pc = "clearing"

RowOf(k) == k \div Cols
ColOf(k) == k % Cols

\* Pixel k lies within one of the four margins (plain integer comparison).
InMargin(k) ==
    \/ RowOf(k) < cfg.skip_rays_top_
    \/ RowOf(k) >= Rows - cfg.skip_rays_bottom_
    \/ ColOf(k) < cfg.skip_rays_left_
    \/ ColOf(k) >= Cols - cfg.skip_rays_right_

\* No coordinate of the point of pixel k is zero or NaN.
ValidPixel(k) ==
    \A a \in 1 .. 3 : points3d[k][a] # 0 /\ points3d[k][a] # NaN

Occurrences(cloud, p) == Cardinality({ n \in 1 .. Len(cloud) : cloud[n] = p })

\* C6: a pixel within a margin never contributes a point to the marking
\* set, for all non-negative margins, also those larger than the grid; when
\* the margins cover the whole grid the marking set is empty.
C6_EdgeExclusion ==
    Classified
        => /\ \A k \in Pixels :
                InMargin(k) => Occurrences(marking_points, points3d[k]) = 0
           /\ (\A k \in Pixels : InMargin(k)) => marking_points = << >>

\* C7: after classification a valid point at a pixel within a margin is in
\* the clearing set exactly when clear_with_skipped_rays is true, a valid
\* point at any other pixel is in it exactly once, and an invalid point is
\* never in it.
C7_ClearingPolicy ==
    Classified
        => \A k \in Pixels :
              IF ~ValidPixel(k)
              THEN Occurrences(clearing_points, points3d[k]) = 0
              ELSE IF InMargin(k)
              THEN (Occurrences(clearing_points, points3d[k]) > 0)
                       <=> cfg.clear_with_skipped_rays_
              ELSE Occurrences(clearing_points, points3d[k]) = 1

\* |a*x + b*y + c*z + d| of the point of pixel k, scaled by One.
PlaneDistance(k) ==
    Abs(ground_plane[1] * points3d[k][1] + ground_plane[2] * points3d[k][2]
            + ground_plane[3] * points3d[k][3] + One * ground_plane[4])

\* The grid neighbours of pixel k that are valid and differ from its point
\* by less than 0.1 on each axis.
SupportingNeighbours(k) ==
    { n \in Pixels :
        /\ n # k
        /\ Abs(RowOf(n) - RowOf(k)) <= 1
        /\ Abs(ColOf(n) - ColOf(k)) <= 1
        /\ ValidPixel(n)
        /\ \A a \in 1 .. 3 : 10 * Abs(points3d[n][a] - points3d[k][a]) < One }

\* C8: with margins between 1 and the grid dimension, the valid point of a
\* pixel outside the margins is in the marking set (once) if and only if
\* its plane distance exceeds observation_separation_threshold and at least
\* 7 of its 8 grid neighbours support it.
C8_MarkingMembership ==
    Classified
        => \A k \in Pixels :
              (ValidPixel(k) /\ ~InMargin(k))
                 => /\ Occurrences(marking_points, points3d[k]) <= 1
                    /\ (Occurrences(marking_points, points3d[k]) = 1)
                          <=> /\ PlaneDistance(k) > One * cfg.observations_threshold_
                              /\ Cardinality(SupportingNeighbours(k)) >= 7

\* A point off the plane with exactly 7 supporting neighbours is marked,
\* in a frame in which a point missing an eighth neighbour exists.
C8_Witness ==
    /\ Classified
    /\ \E k \in Pixels :
          /\ ValidPixel(k) /\ ~InMargin(k)
          /\ Cardinality(SupportingNeighbours(k)) = 7
          /\ PlaneDistance(k) > One * cfg.observations_threshold_
          /\ Occurrences(marking_points, points3d[k]) = 1

\* C10: every neighbour index the outlier filter reads lies inside the
\* grid, for every margin configuration, margins of 0 included.
C10_NeighbourReadsInGrid ==
    \A rc \in oob_reads :
        rc[1] >= 0 /\ rc[1] < Rows /\ rc[2] >= 0 /\ rc[2] < Cols

====
